---- MODULE Spec2Model ----
(***************************************************************************)
(* A model of mob's process.h: the line decoder encoded_buffer (add,       *)
(* next_utf8_lines, next_line), the pipeline composition process::pipe     *)
(* and the run / interrupt / join life cycle of a process; and of          *)
(* python::do_clean of tasks/python.cpp.                                   *)
(*                                                                         *)
(* Bytes are numbers 0..255, a buffer is a sequence of bytes, offsets are  *)
(* 0-based byte offsets as in the C++ code (so byte k of the code is       *)
(* element k+1 of the sequence).                                           *)
(***************************************************************************)
EXTENDS Integers, Sequences, FiniteSets, TLC

(***************************************************************************)
(* Bounds of the model.                                                    *)
(***************************************************************************)
\* the largest number of bytes accumulated in an encoded_buffer
MaxLen == 4
\* how many bytes of memory after the string's terminator are still mapped
MaxGarbage == 5

NL == 10
CR == 13
\* the byte values the model feeds to add(): NUL, '\n', '\r', 'a', 'b'
ByteSet == {0, NL, CR, 97, 98}
\* the byte values memory after the buffer may hold
GarbageBytes == {0, NL}

\* encodings (enum mob::encodings as used by the switch of next_utf8_lines)
Encodings == {"dont_know", "utf8", "utf16", "acp", "oem"}

VARIABLES
    \* ---- encoded_buffer
    e_,         \* encoded_buffer::e_
    bytes_,     \* encoded_buffer::bytes_
    last_,      \* encoded_buffer::last_
    emitted,    \* the strings passed to f, in order
    views,      \* the views next_line returned for them: [start, len, units]
    st,         \* "ok", "fault" (a read of unmapped memory), "assert" (MOB_ASSERT fired)
    oob,        \* a read at or after bytes.size() has happened
    lastop,     \* the last call: "new", "add", "next_false", "next_true"
    flushes,    \* number of next_utf8_lines(true, ..) calls, capped at 2
    clean       \* a next_utf8_lines(true, ..) has returned and no add() followed

VARIABLES
    \* ---- process::pipe
    pipeArgs,   \* the arguments p1, p2, ..., each a process (its chain of descriptors)
    pipeRet,    \* the process pipe returned (<<>> before the call)
    pipeTemp,   \* the value of the inner call pipe(r, ps...) of line 235
    pipePc      \* "idle", "ready" (arguments chosen), "done" (returned)

VARIABLES
    \* ---- the run of a process
    rstate,     \* Unstarted, Running, Completed, Interrupted, TimedOut, Finalized
    interrupt,  \* impl::interrupt
    tflag,      \* flags_ has terminate_on_interrupt
    child,      \* the spawned process: "none", "alive", "exited"
    behaviour,  \* the program: "exits", "obeys", "ignores"
    desc,       \* descendants of the child running in its group
    coop,       \* cooperative termination has been requested
    forced,     \* the group has been forcibly terminated
    grace,      \* poll intervals since the cooperative request
    exitc,      \* what the process exited with (-1: not exited)
    code_,      \* process::code_ as exit_code() returns it (-1: not resolved)
    output,     \* number of lines captured from the pipes
    spawns,     \* number of processes spawned
    early,      \* interrupt() was called before run() started
    aflag,      \* flags_ has allow_failure
    success_,   \* process::success_, the exit codes that count as success
    outcome     \* how the run ended: "none", "Success", "NonZeroExit",
                \* "Interrupted", "TimedOut"

VARIABLES
    \* ---- the python task
    pyPrebuilt, \* what python::prebuilt() returns
    pyCleans    \* the do_clean(c) calls made: [c, steps], the steps being the
                \* tools and operations run, in order

dvars == <<e_, bytes_, last_, emitted, views, st, oob, lastop, flushes, clean>>

pvars == <<pipeArgs, pipeRet, pipeTemp, pipePc>>

rvars == <<rstate, interrupt, tflag, child, behaviour, desc, coop, forced, grace,
           exitc, code_, output, spawns, early, aflag, success_, outcome>>

yvars == <<pyPrebuilt, pyCleans>>

vars == <<dvars, pvars, rvars, yvars>>

(***************************************************************************)
(* Helpers on sequences.                                                   *)
(***************************************************************************)
Max(a, b) == IF a >= b THEN a ELSE b

Min(a, b) == IF a <= b THEN a ELSE b

RECURSIVE SeqsUpTo(_, _)
\* all sequences over S of length 0..n
SeqsUpTo(S, n) ==
    IF n = 0 THEN {<<>>}
    ELSE LET shorter == SeqsUpTo(S, n - 1)
         IN shorter \cup {Append(s, x) : s \in {t \in shorter : Len(t) = n - 1}, x \in S}

RECURSIVE Flatten(_)
Flatten(ss) == IF ss = <<>> THEN <<>> ELSE Head(ss) \o Flatten(Tail(ss))

(***************************************************************************)
(* encoded_buffer                                                          *)
(***************************************************************************)
\* sizeof(CharT) of the next_line instantiation the switch picks for e
CharSize(e) == IF e = "utf16" THEN 2 ELSE 1

\* *p for a CharT pointer at byte offset p (wchar_t is little-endian)
Unit(W, mem, p) ==
    IF W = 2 THEN mem[p + 1] + 256 * mem[p + 2] ELSE mem[p + 1]

\* *p == CharT('\n') || *p == CharT('\r')
IsSep(u) == u = NL \/ u = CR

\* the units of the view {data + start, len}
UnitsOf(W, mem, start, len) == [i \in 1..len |-> Unit(W, mem, start + (i - 1) * W)]

\* a bug: the separator run is not collapsed, one separator ends the line
SkipOneSep(W, mem, p, end) == p

\* the inner while of next_line: while (p != end && issep(*p)) ++p;
\* stops as well at a unit that is not mapped (the read faults there)
RECURSIVE SkipSeps(_, _, _, _)
SkipSeps(W, mem, p, end) ==
    IF p # end /\ p + W <= Len(mem) /\ IsSep(Unit(W, mem, p))
    THEN SkipSeps(W, mem, p + W, end)
    ELSE p

\* the outer while of next_line, from p with the current start; hi is the
\* largest byte offset (exclusive) read so far
RECURSIVE Scan(_, _, _, _, _, _)
RECURSIVE ScanSeparator(_, _, _, _, _, _, _)
Scan(W, mem, p, start, end, hi) ==
    IF p = end
    THEN [kind |-> "end", start |-> start, len |-> 0, next |-> p, hi |-> hi]
    ELSE IF p + W > Len(mem)
    THEN [kind |-> "fault", start |-> start, len |-> 0, next |-> p, hi |-> p + W]
    ELSE IF IsSep(Unit(W, mem, p))
    THEN ScanSeparator(W, mem, p, start, end, hi, SkipSeps(W, mem, p + W, end))
    ELSE Scan(W, mem, p + W, start, end, Max(hi, p + W))

\* the body of if (*p == '\n' || *p == '\r') for the separator at p, the
\* inner while having stopped at q: the line found, or on with start = q
ScanSeparator(W, mem, p, start, end, hi, q) ==
    IF q # end /\ q + W > Len(mem)
    THEN [kind |-> "fault", start |-> start, len |-> 0, next |-> q, hi |-> Max(hi, q + W)]
    ELSE IF p > start
    THEN [kind |-> "line", start |-> start, len |-> (p - start) \div W, next |-> q,
          hi |-> IF q = end THEN Max(hi, q) ELSE Max(hi, q + W)]
    ELSE Scan(W, mem, q, q, end, IF q = end THEN Max(hi, q) ELSE Max(hi, q + W))

\* a bug: the odd byte is not left out
ScanSizeWhole(W, n) == n

\* the size next_line scans up to: bytes.size(), less the odd byte for wchar_t
ScanSize(W, n) == IF W = 2 /\ n % 2 = 1 THEN n - 1 ELSE n

\* the length in units of the view returned when finished and no line was found
TailLen(W, size, off) == size - off

\* a bug: after a line, byte_offset is left after its first separator
AfterScanFirstSep(W, finished, n, off, size, r) ==
    CASE r.kind = "fault" ->
           [st |-> "fault", start |-> off, len |-> 0, off |-> off, hi |-> r.hi]
      [] r.kind = "line" ->
           [st |-> IF r.next <= n THEN "ok" ELSE "assert",
            start |-> r.start, len |-> r.len, off |-> r.start + W * r.len + W,
            hi |-> r.hi]
      [] OTHER ->
           IF finished
           THEN [st |-> "ok", start |-> off, len |-> TailLen(W, size, off),
                 off |-> n, hi |-> r.hi]
           ELSE [st |-> "ok", start |-> off, len |-> 0, off |-> off, hi |-> r.hi]

\* what next_line does after its while, r being what the scan found: the
\* view it returns, byte_offset on return and how the call ended
AfterScan(W, finished, n, off, size, r) ==
    CASE r.kind = "fault" ->
           [st |-> "fault", start |-> off, len |-> 0, off |-> off, hi |-> r.hi]
      [] r.kind = "line" ->
           [st |-> IF r.next <= n THEN "ok" ELSE "assert",
            start |-> r.start, len |-> r.len, off |-> r.next, hi |-> r.hi]
      [] OTHER ->
           IF finished
           THEN [st |-> "ok", start |-> off, len |-> TailLen(W, size, off),
                 off |-> n, hi |-> r.hi]
           ELSE [st |-> "ok", start |-> off, len |-> 0, off |-> off, hi |-> r.hi]

\* next_line<CharT>(finished, bytes, byte_offset): mem is the memory at
\* bytes.data() (the n bytes, the terminator, then what follows), off is
\* byte_offset on entry
next_line(W, finished, mem, n, off) ==
    AfterScan(W, finished, n, off, ScanSize(W, n),
              Scan(W, mem, off, off, ScanSize(W, n), off))

\* the for (;;) of next_utf8_lines: acc are the views passed on so far
RECURSIVE Drain(_, _, _, _, _, _, _)
RECURSIVE DrainLine(_, _, _, _, _, _, _)
Drain(W, finished, mem, n, off, acc, hi) ==
    DrainLine(W, finished, mem, n, acc, hi, next_line(W, finished, mem, n, off))

\* one turn of the loop, r being what next_line returned: return on an empty
\* view, else convert it (which reads it), pass it to f and go on
DrainLine(W, finished, mem, n, acc, hi, r) ==
    IF r.st # "ok"
    THEN [st |-> r.st, off |-> r.off, lines |-> acc, hi |-> Max(hi, r.hi)]
    ELSE IF r.len = 0
    THEN [st |-> "ok", off |-> r.off, lines |-> acc, hi |-> Max(hi, r.hi)]
    ELSE IF r.start + W * r.len > Len(mem)
    THEN [st |-> "fault", off |-> r.off, lines |-> acc,
          hi |-> Max(hi, r.start + W * r.len)]
    ELSE Drain(W, finished, mem, n, r.off,
               Append(acc, [start |-> r.start, len |-> r.len,
                            units |-> UnitsOf(W, mem, r.start, r.len)]),
               Max(Max(hi, r.hi), r.start + W * r.len))

\* the UTF-8 encoding of one UTF-16 code unit (no surrogates are modelled)
Utf8OfUnit(u) ==
    IF u < 128 THEN <<u>>
    ELSE IF u < 2048 THEN <<192 + (u \div 64), 128 + (u % 64)>>
    ELSE <<224 + (u \div 4096), 128 + ((u \div 64) % 64), 128 + (u % 64)>>

utf16_to_utf8(units) == Flatten([i \in 1..Len(units) |-> Utf8OfUnit(units[i])])

\* a code page string to UTF-8: ASCII bytes map to themselves
bytes_to_utf8(e, cp) ==
    Flatten([i \in 1..Len(cp) |->
        IF cp[i] < 128 THEN <<cp[i]>> ELSE <<192 + (cp[i] \div 64), 128 + (cp[i] % 64)>>])

\* what the switch of next_utf8_lines passes to f for a view
ToUtf8(e, units) ==
    CASE e = "utf16" -> utf16_to_utf8(units)
      [] e \in {"acp", "oem"} -> bytes_to_utf8(e, units)
      [] OTHER -> units

\* the memory at bytes.data(): the bytes, std::string's terminator, then g
Memory(bytes, g) == bytes \o <<0>> \o g

Garbage == SeqsUpTo(GarbageBytes, MaxGarbage)

\* the arguments of add(): every non-empty byte string that still fits
Chunks == SeqsUpTo(ByteSet, MaxLen) \ {<<>>}

\* a call counter capped at 2
Bump(k) == Min(k + 1, 2)

\* the bytes after the terminator are drawn only for a call that reads at or
\* after bytes.size(): no other call depends on them
ReadsPast(n, probe) == probe.hi > n

GarbageFor(finished) ==
    IF ReadsPast(Len(bytes_),
                 Drain(CharSize(e_), finished, Memory(bytes_, <<>>), Len(bytes_),
                       last_, <<>>, last_))
    THEN Garbage ELSE {<<>>}

DecoderInit ==
    /\ e_ \in Encodings
    /\ bytes_ = <<>>
    /\ last_ = 0
    /\ emitted = <<>>
    /\ views = <<>>
    /\ st = "ok"
    /\ oob = FALSE
    /\ lastop = "new"
    /\ flushes = 0
    /\ clean = FALSE

\* no encoded_buffer is in use
DecoderIdle ==
    /\ e_ = "dont_know"
    /\ bytes_ = <<>>
    /\ last_ = 0
    /\ emitted = <<>>
    /\ views = <<>>
    /\ st = "ok"
    /\ oob = FALSE
    /\ lastop = "new"
    /\ flushes = 0
    /\ clean = FALSE

\* encoded_buffer::add(bytes)
Add(chunk) ==
    /\ st = "ok"
    /\ Len(bytes_) + Len(chunk) <= MaxLen
    /\ bytes_' = bytes_ \o chunk
    /\ lastop' = "add"
    /\ clean' = FALSE
    /\ UNCHANGED <<e_, last_, emitted, views, st, oob, flushes>>
    /\ UNCHANGED <<pvars, rvars, yvars>>

\* the state next_utf8_lines(finished, f) leaves, r being what its loop did
Returned(finished, r) ==
    /\ last_' = r.off
    /\ views' = views \o r.lines
    /\ emitted' = emitted \o [i \in 1..Len(r.lines) |-> ToUtf8(e_, r.lines[i].units)]
    /\ st' = r.st
    /\ oob' = (oob \/ r.hi > Len(bytes_))
    /\ lastop' = IF finished THEN "next_true" ELSE "next_false"
    /\ flushes' = IF finished THEN Bump(flushes) ELSE flushes
    /\ clean' = (clean \/ finished)
    /\ UNCHANGED <<e_, bytes_>>
    /\ UNCHANGED <<pvars, rvars, yvars>>

\* encoded_buffer::next_utf8_lines(finished, f), with g after the buffer
NextUtf8Lines(finished, g) ==
    /\ st = "ok"
    /\ Returned(finished,
                Drain(CharSize(e_), finished, Memory(bytes_, g), Len(bytes_),
                      last_, <<>>, last_))

AddStep == \E chunk \in {c \in Chunks : Len(bytes_) + Len(c) <= MaxLen} : Add(chunk)

ScanStep == \E g \in GarbageFor(FALSE) : NextUtf8Lines(FALSE, g)

FlushStep == \E g \in GarbageFor(TRUE) : NextUtf8Lines(TRUE, g)

(***************************************************************************)
(* process::pipe                                                           *)
(***************************************************************************)
\* the largest number of arguments of one pipe(...) call
MaxPipe == 4
\* the number of distinct process descriptors
NumProcs == 3

\* a process is modelled by the chain of descriptors it runs, left to right;
\* a descriptor that was not piped is the chain of itself
Procs == {<<i>> : i \in 1..NumProcs}

\* process::pipe_into(p): this process's stdout feeds p
pipe_into(r, p) == r \o p

\* static process pipe(process p)
pipe1(p) == p

\* static process pipe(const process& p1, const process& p2, Processes&&... ps):
\* r is a copy of p1 piped into p2; the inner call pipe(r, ps...) takes r by
\* const reference (or by value) and its result is not used; r is returned
pipe(ps) ==
    IF Len(ps) = 1 THEN pipe1(ps[1])
    ELSE pipe_into(ps[1], ps[2])

\* the temporary the inner call pipe(r, ps...) of line 235 returns
RECURSIVE pipe_inner(_)
pipe_inner(ps) ==
    IF Len(ps) = 1 THEN pipe1(ps[1])
    ELSE LET r == pipe_into(ps[1], ps[2])
             rest == <<r>> \o SubSeq(ps, 3, Len(ps))
         IN IF Len(rest) = 1 THEN pipe1(r) ELSE pipe_inner(rest)

PipeIdle ==
    /\ pipeArgs = <<>>
    /\ pipeRet = <<>>
    /\ pipeTemp = <<>>
    /\ pipePc = "idle"

PipeInit ==
    /\ pipeArgs \in {a \in SeqsUpTo(Procs, MaxPipe) : Len(a) >= 1}
    /\ pipeRet = <<>>
    /\ pipeTemp = <<>>
    /\ pipePc = "ready"

\* the call process::pipe(p1, ..., pn)
PipeCall ==
    /\ pipePc = "ready"
    /\ pipeRet' = pipe(pipeArgs)
    /\ pipeTemp' = IF Len(pipeArgs) >= 2 THEN pipe_inner(pipeArgs) ELSE <<>>
    /\ pipePc' = "done"
    /\ UNCHANGED <<pipeArgs, dvars, rvars, yvars>>

(***************************************************************************)
(* run(), interrupt(), join()                                              *)
(***************************************************************************)
\* poll intervals between the cooperative request and the forced termination
GracePeriod == 2
\* the most lines the model captures from the pipes
MaxOutput == 2
\* the most descendants the child spawns
MaxDesc == 1

ExitCodes == {0, 5}
\* the sets success_exit_codes() is given: the default, and one that accepts 5
SuccessSets == {{0}, {0, 5}}

RunnerIdle ==
    /\ rstate = "Unstarted"
    /\ interrupt = FALSE
    /\ tflag = FALSE
    /\ child = "none"
    /\ behaviour = "exits"
    /\ desc = 0
    /\ coop = FALSE
    /\ forced = FALSE
    /\ grace = 0
    /\ exitc = -1
    /\ code_ = -1
    /\ output = 0
    /\ spawns = 0
    /\ early = FALSE
    /\ aflag = FALSE
    /\ success_ = {0}
    /\ outcome = "none"

RunnerInit ==
    /\ rstate = "Unstarted"
    /\ interrupt = FALSE
    /\ tflag \in BOOLEAN
    /\ child = "none"
    /\ behaviour \in {"exits", "obeys", "ignores"}
    /\ desc = 0
    /\ coop = FALSE
    /\ forced = FALSE
    /\ grace = 0
    /\ exitc = -1
    /\ code_ = -1
    /\ output = 0
    /\ spawns = 0
    /\ early = FALSE
    /\ aflag \in BOOLEAN
    /\ success_ \in SuccessSets
    /\ outcome = "none"

\* a bug: run() spawns the process without looking at the interrupt flag
RunAlways ==
    /\ rstate = "Unstarted"
    /\ rstate' = "Running"
    /\ child' = "alive"
    /\ spawns' = spawns + 1
    /\ UNCHANGED <<interrupt, tflag, behaviour, desc, coop, forced, grace, exitc,
                   code_, output, early>>
    /\ UNCHANGED <<aflag, success_, outcome>>
    /\ UNCHANGED <<dvars, pvars, yvars>>

\* process::run(): spawns the process in a new group and enters the poll
\* loop; interrupted before it started, it spawns nothing and returns, and
\* join() has nothing to wait for
Run ==
    /\ rstate = "Unstarted"
    /\ IF interrupt
       THEN /\ rstate' = "Finalized"
            /\ UNCHANGED <<child, spawns>>
       ELSE /\ rstate' = "Running"
            /\ child' = "alive"
            /\ spawns' = spawns + 1
    /\ UNCHANGED <<interrupt, tflag, behaviour, desc, coop, forced, grace, exitc,
                   code_, output, early>>
    /\ UNCHANGED <<aflag, success_, outcome>>
    /\ UNCHANGED <<dvars, pvars, yvars>>

\* process::interrupt(), from any thread at any time
Interrupt ==
    /\ ~interrupt
    /\ interrupt' = TRUE
    /\ early' = (early \/ rstate = "Unstarted")
    /\ UNCHANGED <<rstate, tflag, child, behaviour, desc, coop, forced, grace, exitc,
                   code_, output, spawns>>
    /\ UNCHANGED <<aflag, success_, outcome>>
    /\ UNCHANGED <<dvars, pvars, yvars>>

\* the child writes a line, which a poll iteration captures
ChildWrites ==
    /\ rstate = "Running"
    /\ child = "alive"
    /\ output < MaxOutput
    /\ output' = output + 1
    /\ UNCHANGED <<rstate, interrupt, tflag, child, behaviour, desc, coop, forced,
                   grace, exitc, code_, spawns, early>>
    /\ UNCHANGED <<aflag, success_, outcome>>
    /\ UNCHANGED <<dvars, pvars, yvars>>

\* the child starts a process of its own, which joins the group
ChildSpawns ==
    /\ child = "alive"
    /\ desc < MaxDesc
    /\ desc' = desc + 1
    /\ UNCHANGED <<rstate, interrupt, tflag, child, behaviour, coop, forced, grace,
                   exitc, code_, output, spawns, early>>
    /\ UNCHANGED <<aflag, success_, outcome>>
    /\ UNCHANGED <<dvars, pvars, yvars>>

\* the program ends by itself, or because it was asked to
ChildExits ==
    /\ child = "alive"
    /\ \/ behaviour = "exits"
       \/ behaviour = "obeys" /\ coop
    /\ child' = "exited"
    /\ \E c \in ExitCodes : exitc' = c
    /\ UNCHANGED <<rstate, interrupt, tflag, behaviour, desc, coop, forced, grace,
                   code_, output, spawns, early>>
    /\ UNCHANGED <<aflag, success_, outcome>>
    /\ UNCHANGED <<dvars, pvars, yvars>>

\* a bug: terminate_on_interrupt is not looked at
RequestTerminationAlways ==
    /\ rstate = "Running"
    /\ child = "alive"
    /\ interrupt
    /\ ~coop
    /\ coop' = TRUE
    /\ grace' = 0
    /\ UNCHANGED <<rstate, interrupt, tflag, child, behaviour, desc, forced, exitc,
                   code_, output, spawns, early>>
    /\ UNCHANGED <<aflag, success_, outcome>>
    /\ UNCHANGED <<dvars, pvars, yvars>>

\* a poll iteration that finds the interrupt flag set: the runner asks the
\* group to terminate, once, when terminate_on_interrupt is set
RequestTermination ==
    /\ rstate = "Running"
    /\ child = "alive"
    /\ interrupt
    /\ tflag
    /\ ~coop
    /\ coop' = TRUE
    /\ grace' = 0
    /\ UNCHANGED <<rstate, interrupt, tflag, child, behaviour, desc, forced, exitc,
                   code_, output, spawns, early>>
    /\ UNCHANGED <<aflag, success_, outcome>>
    /\ UNCHANGED <<dvars, pvars, yvars>>

\* a poll interval passes after the request with the process still running
GraceTick ==
    /\ rstate = "Running"
    /\ child = "alive"
    /\ coop
    /\ grace < GracePeriod
    /\ grace' = grace + 1
    /\ UNCHANGED <<rstate, interrupt, tflag, child, behaviour, desc, coop, forced,
                   exitc, code_, output, spawns, early>>
    /\ UNCHANGED <<aflag, success_, outcome>>
    /\ UNCHANGED <<dvars, pvars, yvars>>

\* a bug: only the process itself is terminated, its descendants stay
ForceTerminateChildOnly ==
    /\ rstate = "Running"
    /\ child = "alive"
    /\ coop
    /\ grace = GracePeriod
    /\ forced' = TRUE
    /\ child' = "exited"
    /\ \E c \in ExitCodes : exitc' = c
    /\ UNCHANGED <<rstate, interrupt, tflag, behaviour, desc, coop, grace, code_,
                   output, spawns, early>>
    /\ UNCHANGED <<aflag, success_, outcome>>
    /\ UNCHANGED <<dvars, pvars, yvars>>

\* the grace period is over: the runner terminates the whole group
ForceTerminate ==
    /\ rstate = "Running"
    /\ child = "alive"
    /\ coop
    /\ grace = GracePeriod
    /\ forced' = TRUE
    /\ child' = "exited"
    /\ desc' = 0
    /\ \E c \in ExitCodes : exitc' = c
    /\ UNCHANGED <<rstate, interrupt, tflag, behaviour, coop, grace, code_, output,
                   spawns, early>>
    /\ UNCHANGED <<aflag, success_, outcome>>
    /\ UNCHANGED <<dvars, pvars, yvars>>

\* a bug: allow_failure is not looked at
on_completed_strict(f, c, code, succ, allow) ==
    IF f THEN "TimedOut"
    ELSE IF c THEN "Interrupted"
    ELSE IF code \in succ THEN "Success"
    ELSE "NonZeroExit"

\* process::on_completed(): how the run that resolved exit code `code` ends.
\* f: the group was forcibly terminated; c: termination was requested
on_completed(f, c, code, succ, allow) ==
    IF f THEN "TimedOut"
    ELSE IF c THEN "Interrupted"
    ELSE IF code \in succ THEN "Success"
    ELSE IF allow THEN "Success"
    ELSE "NonZeroExit"

\* a poll iteration that finds the process exited: the last read of the
\* pipes, then the exit code is resolved and the outcome classified
Completion ==
    /\ rstate = "Running"
    /\ child = "exited"
    /\ code_' = exitc
    /\ rstate' = IF forced THEN "TimedOut" ELSE IF coop THEN "Interrupted" ELSE "Completed"
    /\ outcome' = on_completed(forced, coop, exitc, success_, aflag)
    /\ UNCHANGED <<interrupt, tflag, child, behaviour, desc, coop, forced, grace,
                   exitc, output, spawns, early>>
    /\ UNCHANGED <<aflag, success_>>
    /\ UNCHANGED <<dvars, pvars, yvars>>

\* process::join() returns
JoinReturns ==
    /\ rstate \in {"Completed", "Interrupted", "TimedOut"}
    /\ rstate' = "Finalized"
    /\ UNCHANGED <<interrupt, tflag, child, behaviour, desc, coop, forced, grace,
                   exitc, code_, output, spawns, early>>
    /\ UNCHANGED <<aflag, success_, outcome>>
    /\ UNCHANGED <<dvars, pvars, yvars>>

(***************************************************************************)
(* python::do_clean                                                        *)
(***************************************************************************)
\* the most do_clean calls of one run
MaxCleans == 2

\* the flags of mob::clean that do_clean looks at
CleanFlags == {"redownload", "reextract", "reclone", "rebuild"}

\* is_set(c, flag), c being a set of flags
is_set(c, flag) == flag \in c

\* a bug: after the source directory is deleted for reclone, the msbuild
\* clean still runs
do_clean_through(prebuilt, c) ==
    IF prebuilt
    THEN (IF is_set(c, "redownload") THEN <<"downloader_clean">> ELSE <<>>)
         \o (IF is_set(c, "reextract") THEN <<"op_delete_directory">> ELSE <<>>)
    ELSE (IF is_set(c, "reclone") THEN <<"git_delete_directory">> ELSE <<>>)
         \o (IF is_set(c, "rebuild") THEN <<"msbuild_clean">> ELSE <<>>)

\* python::do_clean(c): the tools and operations it runs, in order
do_clean(prebuilt, c) ==
    IF prebuilt
    THEN (IF is_set(c, "redownload") THEN <<"downloader_clean">> ELSE <<>>)
         \o (IF is_set(c, "reextract") THEN <<"op_delete_directory">> ELSE <<>>)
    ELSE IF is_set(c, "reclone") THEN <<"git_delete_directory">>
    ELSE IF is_set(c, "rebuild") THEN <<"msbuild_clean">>
    ELSE <<>>

PythonIdle ==
    /\ pyPrebuilt = FALSE
    /\ pyCleans = <<>>

PythonInit ==
    /\ pyPrebuilt \in BOOLEAN
    /\ pyCleans = <<>>

\* a call of do_clean with the flags c
DoClean(c) ==
    /\ Len(pyCleans) < MaxCleans
    /\ pyCleans' = Append(pyCleans, [c |-> c, steps |-> do_clean(pyPrebuilt, c)])
    /\ UNCHANGED pyPrebuilt
    /\ UNCHANGED <<dvars, pvars, rvars>>

DoCleanStep == \E c \in SUBSET CleanFlags : DoClean(c)

(***************************************************************************)
(* Specifications                                                          *)
(***************************************************************************)
Init == DecoderInit /\ PipeIdle /\ RunnerIdle /\ PythonIdle

DecoderNext == AddStep \/ ScanStep \/ FlushStep

SpecDecoder == Init /\ [][DecoderNext]_vars

\* one add() to a fresh buffer, then one next_utf8_lines(true, f)
OneShotNext ==
    \/ lastop = "new" /\ AddStep
    \/ lastop = "add" /\ FlushStep

SpecOneShot == Init /\ [][OneShotNext]_vars

PipeNext == PipeCall

\* the stream while it lasts: add() and next_utf8_lines(false, f) only
StreamNext == AddStep \/ ScanStep

SpecStream == Init /\ [][StreamNext]_vars

InitPipe == DecoderIdle /\ PipeInit /\ RunnerIdle /\ PythonIdle

SpecPipe == InitPipe /\ [][PipeNext]_vars

\* what the thread driving run() and join() does
RunnerStep == RequestTermination \/ GraceTick \/ ForceTerminate \/ Completion \/ JoinReturns

RunnerNext ==
    \/ Run
    \/ Interrupt
    \/ ChildWrites
    \/ ChildSpawns
    \/ ChildExits
    \/ RunnerStep

InitRunner == DecoderIdle /\ PipeIdle /\ RunnerInit /\ PythonIdle

SpecRunner == InitRunner /\ [][RunnerNext]_vars

PythonNext == DoCleanStep

InitPython == DecoderIdle /\ PipeIdle /\ RunnerIdle /\ PythonInit

SpecPython == InitPython /\ [][PythonNext]_vars

\* the poll loop keeps iterating and poll intervals keep passing
FairRunner == SpecRunner /\ WF_vars(RunnerStep)

(***************************************************************************)
(* Properties of encoded_buffer                                            *)
(***************************************************************************)
\* the strings f receives for a list of views
Utf8Lines(e, lines) == [i \in 1..Len(lines) |-> ToUtf8(e, lines[i].units)]

\* what one add() of all the bytes and one next_utf8_lines(true, f) can give
WholeOutcomes(e, bytes) ==
    {LET r == Drain(CharSize(e), TRUE, Memory(bytes, g), Len(bytes), 0, <<>>, 0)
     IN <<r.st, Utf8Lines(e, r.lines)>> : g \in Garbage}

\* the byte offsets of the whole code units from offset off on
UnitOffsets(W, n, off) ==
    {p \in off..(ScanSize(W, n) - W) : (p - off) % W = 0}

\* the unconsumed bytes hold whole code units, none of them a separator
NoSepTail ==
    /\ last_ <= ScanSize(CharSize(e_), Len(bytes_))
    /\ (ScanSize(CharSize(e_), Len(bytes_)) - last_) % CharSize(e_) = 0
    /\ \A p \in UnitOffsets(CharSize(e_), Len(bytes_), last_) :
           ~IsSep(Unit(CharSize(e_), bytes_, p))

\* the unconsumed code units
TailUnits ==
    UnitsOf(CharSize(e_), bytes_, last_,
            (ScanSize(CharSize(e_), Len(bytes_)) - last_) \div CharSize(e_))

\* the accumulated bytes are whole code units, all of them separators
OnlySeparators ==
    /\ Len(bytes_) % CharSize(e_) = 0
    /\ \A p \in UnitOffsets(CharSize(e_), Len(bytes_), 0) :
           IsSep(Unit(CharSize(e_), bytes_, p))

\* a reference for splitting into lines: the maximal runs of non-separator
\* units of s, in order (cur is the run being collected)
RECURSIVE SplitLines(_, _)
SplitLines(s, cur) ==
    IF s = <<>> THEN (IF cur = <<>> THEN <<>> ELSE <<cur>>)
    ELSE IF IsSep(Head(s))
    THEN (IF cur = <<>> THEN <<>> ELSE <<cur>>) \o SplitLines(Tail(s), <<>>)
    ELSE SplitLines(Tail(s), Append(cur, Head(s)))

\* "a\r\nb", "a\n\rb", "a\rb", "a\nb"
FourInputs == {<<97, CR, NL, 98>>, <<97, NL, CR, 98>>, <<97, CR, 98>>, <<97, NL, 98>>}

\* C1: chunking invariance. When the chunks were added one by one with
\* next_utf8_lines(false, f) after each, the first next_utf8_lines(true, f)
\* leaves f with the lines that one add() of all the bytes and one
\* next_utf8_lines(true, f) give.
ChunkingInvariance ==
    [][(lastop = "next_false" /\ flushes = 0 /\ lastop' = "next_true")
        => <<st', emitted'>> \in WholeOutcomes(e_, bytes_)]_vars

\* C2: separator collapsing. For a single-byte encoding, one add() to a fresh
\* buffer drained with next_utf8_lines(true, f): each of the four inputs
\* gives "a" then "b", and every input that starts with a non-separator
\* gives its maximal runs of non-separators, each separator run being one
\* terminator.
SeparatorCollapsing ==
    (CharSize(e_) = 1 /\ lastop = "next_true")
        => /\ st = "ok"
           /\ (bytes_ \in FourInputs => emitted = <<(<<97>>), (<<98>>)>>)
           /\ (~IsSep(bytes_[1]) => emitted = SplitLines(bytes_, <<>>))

\* C2 witness: "a\r\nb" has been added and drained as "a", "b"
SeparatorCollapsingWitness ==
    /\ e_ = "acp"
    /\ lastop = "next_true"
    /\ bytes_ = <<97, CR, NL, 98>>
    /\ emitted = <<(<<97>>), (<<98>>)>>

\* C3: trailing partial line. With no separator among the unconsumed bytes,
\* next_utf8_lines(false, f) emits nothing and leaves the offset, the next
\* next_utf8_lines(true, f) emits the tail as one line (when there is one),
\* and a call after that without an add() emits nothing.
TrailingPartialLine ==
    [][/\ (st = "ok" /\ NoSepTail /\ lastop' = "next_false" /\ bytes_' = bytes_)
            => (views' = views /\ last_' = last_ /\ st' = "ok")
       /\ (st = "ok" /\ NoSepTail /\ lastop' = "next_true" /\ bytes_' = bytes_)
            => /\ st' = "ok"
               /\ views' = views \o (IF TailUnits = <<>> THEN <<>>
                                     ELSE <<[start |-> last_, len |-> Len(TailUnits),
                                             units |-> TailUnits]>>)
       /\ (st = "ok" /\ clean /\ bytes_' = bytes_) => views' = views]_vars

\* C4: UTF-16 read safety. No call reads at or after bytes.size(), and every
\* view passed on lies inside the accumulated bytes.
Utf16ReadSafety ==
    e_ = "utf16"
        => /\ ~oob
           /\ st # "fault"
           /\ \A i \in 1..Len(views) : views[i].start + 2 * views[i].len <= Len(bytes_)

\* C5: an empty stream and a stream of separators only emit nothing.
SeparatorsEmitNothing == OnlySeparators => emitted = <<>>

\* C6: flush idempotence. After next_utf8_lines(true, f) has returned, a
\* further call without an add() emits nothing and leaves the offset and the
\* bytes.
FlushIdempotence ==
    [][(st = "ok" /\ clean /\ bytes_' = bytes_)
        => (emitted' = emitted /\ last_' = last_ /\ st' = "ok")]_vars

\* C7: the offset invariant. The offset is at most the accumulated length,
\* never decreases, a view passed on starts at or after the offset the call
\* began with, and MOB_ASSERT(byte_offset <= bytes.size()) never fails.
OffsetInvariant ==
    [][/\ last_' <= Len(bytes_')
       /\ last_' >= last_
       /\ st' # "assert"
       /\ \A i \in (Len(views) + 1)..Len(views') : views'[i].start >= last_]_vars

\* the accumulated length less the odd byte
EvenLen == Len(bytes_) - (Len(bytes_) % 2)

\* the two-byte units from the offset to EvenLen, low byte first
PendingUnits16 ==
    [i \in 1..((EvenLen - last_) \div 2) |->
        bytes_[last_ + 2 * i - 1] + 256 * bytes_[last_ + 2 * i]]

\* the index of the last separator of s, 0 when it has none
LastSep(s) ==
    IF \E i \in 1..Len(s) : IsSep(s[i])
    THEN CHOOSE i \in 1..Len(s) : IsSep(s[i]) /\ \A j \in (i + 1)..Len(s) : ~IsSep(s[j])
    ELSE 0

\* the lines of s that a separator ends
CompleteLines(s) == SplitLines(SubSeq(s, 1, LastSep(s)), <<>>)

\* C12: the dangling byte of UTF-16. While only next_utf8_lines(false, f) is
\* called, the offset is even and never passes the last whole code unit, no
\* view holds the odd last byte, and each call emits the separator-ended
\* lines of the whole two-byte units that follow the offset, wherever the
\* add() calls split them, leaving the offset after the separators of the
\* last one.
Utf16DanglingByte ==
    /\ [](e_ = "utf16"
            => /\ st = "ok"
               /\ last_ % 2 = 0
               /\ last_ <= EvenLen
               /\ \A i \in 1..Len(views) :
                      /\ views[i].start % 2 = 0
                      /\ views[i].start + 2 * views[i].len <= last_)
    /\ [][(e_ = "utf16" /\ lastop' = "next_false")
            => /\ emitted' = emitted \o [i \in 1..Len(CompleteLines(PendingUnits16)) |->
                                            ToUtf8("utf16", CompleteLines(PendingUnits16)[i])]
               /\ last_' = IF CompleteLines(PendingUnits16) = <<>> THEN last_
                            ELSE last_ + 2 * LastSep(PendingUnits16)]_vars

\* C12 witness: "a" and the first byte of "\n" are there, a
\* next_utf8_lines(false, f) has run and left both the line and the offset
Utf16DanglingByteWitness ==
    /\ e_ = "utf16"
    /\ lastop = "next_false"
    /\ bytes_ = <<97, 0, NL>>
    /\ emitted = <<>>
    /\ last_ = 0

\* C13: every line passed to f is non-empty and holds no '\r' and no '\n'
\* code unit.
EmittedLinesClean ==
    \A i \in 1..Len(views) :
        /\ views[i].len > 0
        /\ Len(views[i].units) = views[i].len
        /\ \A k \in 1..Len(views[i].units) : ~IsSep(views[i].units[k])

\* the code unit of the accumulated bytes at byte offset p
UnitAt(W, p) == IF W = 2 THEN bytes_[p + 1] + 256 * bytes_[p + 2] ELSE bytes_[p + 1]

\* the end of the run of separator units that starts at byte offset p: the
\* first unit offset from p on that holds no whole separator unit
RunEnd(W, p) ==
    CHOOSE q \in p..(Len(bytes_) + W) :
        /\ (q - p) % W = 0
        /\ \A k \in p..(q - 1) : (k - p) % W = 0 => (k + W <= Len(bytes_) /\ IsSep(UnitAt(W, k)))
        /\ ~(q + W <= Len(bytes_) /\ IsSep(UnitAt(W, q)))

\* the byte offset after the last view passed on
LastViewEnd(W, vs) == vs[Len(vs)].start + W * vs[Len(vs)].len

\* C14: the final flush consumes everything. When next_utf8_lines(true, f)
\* returns, the offset is the accumulated length; when
\* next_utf8_lines(false, f) returns, the offset is where it was if no line
\* was passed on, and else just after the separator run that ends the last
\* line passed on.
FlushConsumesAll ==
    [][/\ (lastop' = "next_true" /\ st' = "ok") => last_' = Len(bytes_)
       /\ (lastop' = "next_false" /\ st' = "ok")
            => last_' = IF views' = views THEN last_
                        ELSE RunEnd(CharSize(e_), LastViewEnd(CharSize(e_), views'))]_vars

\* C14 witness: next_utf8_lines(true, f) has returned with an unfinished
\* last line in the buffer, and the offset is the accumulated length
FlushConsumesAllWitness ==
    /\ lastop = "next_true"
    /\ st = "ok"
    /\ bytes_ = <<97, NL, 98>>
    /\ emitted = <<(<<97>>), (<<98>>)>>
    /\ last_ = 3

\* s with every '\r' and '\n' removed
NonSeparators(s) == SelectSeq(s, LAMBDA b : ~IsSep(b))

\* the views passed on that hold the byte at index k of the accumulated bytes
ViewsHolding(k) ==
    {i \in 1..Len(views) : views[i].start < k /\ k <= views[i].start + views[i].len}

\* C16: no loss and no duplication. For a single-byte encoding, after adds
\* and next_utf8_lines(false, f) calls in any order and then one
\* next_utf8_lines(true, f), the lines passed on, one after the other, are
\* the accumulated bytes without their '\r' and '\n', and each of the other
\* bytes is in exactly one line.
NoLossNoDuplication ==
    (CharSize(e_) = 1 /\ flushes = 1 /\ lastop = "next_true")
        => /\ Flatten([i \in 1..Len(views) |-> views[i].units]) = NonSeparators(bytes_)
           /\ \A k \in 1..Len(bytes_) :
                  ~IsSep(bytes_[k]) => Cardinality(ViewsHolding(k)) = 1

\* the byte offset after view i of vs, the offset before the call for i = 0
ViewEnd(W, vs, i, before) == IF i = 0 THEN before ELSE vs[i].start + W * vs[i].len

\* C17: next_utf8_lines terminates. Every call returns, having passed on no
\* more lines than there are bytes; each line passed on lies after the one
\* before it and after the offset the call began with, and the offset on
\* return is at or after the last of them.
NextUtf8LinesTerminates ==
    [][(lastop' \in {"next_false", "next_true"})
        => /\ st' = "ok"
           /\ Len(views') - Len(views) <= Len(bytes_)
           /\ \A i \in (Len(views) + 1)..Len(views') :
                  /\ views'[i].len > 0
                  /\ views'[i].start
                        >= ViewEnd(CharSize(e_), views', IF i = Len(views) + 1 THEN 0 ELSE i - 1, last_)
                  /\ ViewEnd(CharSize(e_), views', i, last_) <= last_'
           /\ last_' >= last_]_vars

(***************************************************************************)
(* Properties of process::pipe                                             *)
(***************************************************************************)
\* C8: pipeline composition. For n >= 2 arguments, pipe(p1, ..., pn) returns
\* a process whose chain holds all n descriptors, left to right.
PipelineComposition ==
    (pipePc = "done" /\ Len(pipeArgs) >= 2) => pipeRet = Flatten(pipeArgs)

(***************************************************************************)
(* Properties of run(), interrupt(), join()                                *)
(***************************************************************************)
\* C9: forced cancellation. The group is forcibly terminated only after the
\* cooperative request and the grace period, the request is made only for an
\* interrupt with terminate_on_interrupt set, and a running process that
\* ignores the request, once interrupted, leads to join() returned with the
\* process and its descendants no longer running.
ForcedCancellation ==
    /\ [](forced => (coop /\ grace = GracePeriod))
    /\ [](coop => (interrupt /\ tflag))
    /\ (rstate = "Running" /\ interrupt /\ tflag /\ behaviour = "ignores")
           ~> (rstate = "Finalized" /\ forced /\ child = "exited" /\ desc = 0)

\* C9 witness: join() has returned from a forced termination of a process
\* that ignored the request
ForcedCancellationWitness ==
    /\ rstate = "Finalized"
    /\ behaviour = "ignores"
    /\ interrupt /\ tflag /\ coop /\ forced
    /\ grace = GracePeriod
    /\ child = "exited"
    /\ desc = 0

\* C10: interrupt() at any time. Called before run() started, no process is
\* ever spawned; called once the run has completed, it changes neither the
\* exit code nor the captured output, and nothing changes them afterwards.
InterruptSafety ==
    /\ [](early => (spawns = 0 /\ child = "none"))
    /\ [][(rstate \in {"Completed", "Interrupted", "TimedOut", "Finalized"})
            => (code_' = code_ /\ output' = output /\ exitc' = exitc)]_vars

\* C10 witness: interrupted before run(), the run ended with nothing spawned
InterruptSafetyWitness ==
    /\ early
    /\ rstate = "Finalized"
    /\ spawns = 0
    /\ child = "none"

\* C11: the exit-code policy. A run that completed has resolved the exit code
\* the process exited with; with that code outside the success set it ended
\* in NonZeroExit when allow_failure is unset and as a success when it is
\* set, and with the code in the set it ended as a success.
ExitCodePolicy ==
    /\ (rstate = "Completed" => outcome \in {"Success", "NonZeroExit"})
    /\ (outcome \in {"Success", "NonZeroExit"})
           => /\ code_ = exitc
              /\ code_ \in ExitCodes
              /\ (exitc \notin success_ /\ ~aflag) => outcome = "NonZeroExit"
              /\ (exitc \notin success_ /\ aflag) => outcome = "Success"
              /\ (exitc \in success_) => outcome = "Success"

\* C11 witness: exit code 5 with success set {0} and allow_failure unset
\* ended in NonZeroExit, and exit_code() gives 5
ExitCodePolicyWitness ==
    /\ rstate = "Finalized"
    /\ success_ = {0}
    /\ ~aflag
    /\ exitc = 5
    /\ code_ = 5
    /\ outcome = "NonZeroExit"

Ran(k, step) == \E i \in 1..Len(pyCleans[k].steps) : pyCleans[k].steps[i] = step

\* in call k, step a ran before step b
RanBefore(k, a, b) ==
    \E i, j \in 1..Len(pyCleans[k].steps) :
        i < j /\ pyCleans[k].steps[i] = a /\ pyCleans[k].steps[j] = b

\* C18: the steps of python::do_clean. Built from source, git::delete_directory
\* runs iff reclone is set and the msbuild clean runs iff rebuild is set and
\* reclone is not; prebuilt, the downloader clean runs iff redownload is set,
\* op::delete_directory runs iff reextract is set, after the downloader clean
\* when both run, and neither git::delete_directory nor the msbuild clean
\* runs. No step runs twice and the downloader clean and op::delete_directory
\* run only when prebuilt.
DoCleanSteps ==
    \A k \in 1..Len(pyCleans) :
        /\ Ran(k, "git_delete_directory")
              <=> (~pyPrebuilt /\ "reclone" \in pyCleans[k].c)
        /\ Ran(k, "msbuild_clean")
              <=> (~pyPrebuilt /\ "rebuild" \in pyCleans[k].c /\ "reclone" \notin pyCleans[k].c)
        /\ Ran(k, "downloader_clean")
              <=> (pyPrebuilt /\ "redownload" \in pyCleans[k].c)
        /\ Ran(k, "op_delete_directory")
              <=> (pyPrebuilt /\ "reextract" \in pyCleans[k].c)
        /\ (Ran(k, "downloader_clean") /\ Ran(k, "op_delete_directory"))
              => RanBefore(k, "downloader_clean", "op_delete_directory")
        /\ \A i, j \in 1..Len(pyCleans[k].steps) :
              pyCleans[k].steps[i] = pyCleans[k].steps[j] => i = j

\* C18 witness: built from source, do_clean with reclone and rebuild has
\* deleted the source directory without running the msbuild clean, and
\* do_clean with rebuild alone has run the msbuild clean
DoCleanStepsWitness ==
    /\ ~pyPrebuilt
    /\ Len(pyCleans) = 2
    /\ pyCleans[1].c = {"reclone", "rebuild"}
    /\ pyCleans[1].steps = <<"git_delete_directory">>
    /\ pyCleans[2].c = {"rebuild"}
    /\ pyCleans[2].steps = <<"msbuild_clean">>

====
